---- MODULE Spec2Model ----
(***************************************************************************)
(* Event calendar: Home (src/components/home.tsx), MonthlyCalendar         *)
(* (Calendar/MonthlyCalendar.tsx) and EventForm (Calendar/EventForm.tsx).  *)
(*                                                                         *)
(* A JavaScript Date is modelled as [day, tod]: day is the local calendar  *)
(* day counted from 2024-01-01 (day 0, a Monday) and tod the local time of *)
(* day in minutes.  The local zone has a constant UTC offset (no daylight  *)
(* saving change), so getTime() is day * MinutesPerDay + tod, in minutes.  *)
(* A "HH:MM" string is the tuple of its four digits.  An id is the number  *)
(* its decimal string denotes, the empty string being 0.                   *)
(***************************************************************************)
EXTENDS Integers, Sequences, FiniteSets, TLC

VARIABLES events, localEvents, storage, selectedEvent, isNewEvent,
          isEventFormOpen, clock, now, lastOp, viewDay, shown, isEditMode,
          everIds, formEvent

vars == <<events, localEvents, storage, selectedEvent, isNewEvent,
          isEventFormOpen, clock, now, lastOp, viewDay, shown, isEditMode,
          everIds, formEvent>>

(***************************************************************************)
(* Bounds                                                                  *)
(***************************************************************************)
\* last calendar day of the modelled range (2024-12-31)
MaxDay == 365
\* number of user actions after the mount
MaxActions == 4
\* number of successive calls of updateEventDate
MaxShifts == 2
\* number of two-week cycles checked forward and backward
MaxCycles == 8

DayRange == 0..MaxDay

(***************************************************************************)
(* The local calendar (JavaScript Date getters, date-fns helpers)          *)
(***************************************************************************)
EpochYear == 2024

MinutesPerDay == 1440

IsLeapYear(y) == (y % 4 = 0 /\ y % 100 # 0) \/ y % 400 = 0

DaysInMonth(y, m) ==
    IF m = 1 THEN (IF IsLeapYear(y) THEN 29 ELSE 28)
    ELSE IF m \in {3, 5, 8, 10} THEN 30 ELSE 31

\* year, month (0-based, as getMonth) and day of month of the n-th day
\* counted from the first day of month m of year y
RECURSIVE CivilFrom(_, _, _)
CivilFrom(y, m, n) ==
    IF n < DaysInMonth(y, m)
    THEN [year |-> y, month |-> m, date |-> n + 1]
    ELSE IF m = 11 THEN CivilFrom(y + 1, 0, n - DaysInMonth(y, m))
         ELSE CivilFrom(y, m + 1, n - DaysInMonth(y, m))

Civil == [n \in 0..(MaxDay + 400) |-> CivilFrom(EpochYear, 0, n)]

getFullYear(d) == Civil[d.day].year
getMonth(d) == Civil[d.day].month
getDate(d) == Civil[d.day].date
getTime(d) == d.day * MinutesPerDay + d.tod

\* 0 = Sunday .. 6 = Saturday; day 0 is a Monday
getDay(d) == (d.day + 1) % 7

WeekdayNames ==
    <<"Sunday", "Monday", "Tuesday", "Wednesday", "Thursday", "Friday",
      "Saturday">>

\* format(day, "EEEE")
formatEEEE(d) == WeekdayNames[getDay(d) + 1]

startOfDay(d) == [day |-> d.day, tod |-> 0]

\* date-fns isSameDay: both dates have the same start of day
isSameDay_Instant(a, b) == getTime(a) = getTime(b)

isSameDay(a, b) == getTime(startOfDay(a)) = getTime(startOfDay(b))

\* a grid day: eachDayOfInterval yields local midnights
Midnight(n) == [day |-> n, tod |-> 0]

\* Math.round, Math.floor and Math.ceil of the quotient a / b, b > 0
MathRound(a, b) == (2 * a + b) \div (2 * b)
MathFloor(a, b) == a \div b
MathCeil(a, b) == -((-a) \div b)

\* the JavaScript remainder a % b: the sign is that of the dividend
JSRem(a, b) == IF a >= 0 THEN a % b ELSE -((-a) % b)

(***************************************************************************)
(* Events                                                                  *)
(***************************************************************************)
\* an absent days array and an empty one are both <<>>, an absent interval
\* and 0 are both 0: every use in the code tests them by truthiness
NoDays == <<>>
NoInterval == 0

Rec(type, days, interval) ==
    [type |-> type, days |-> days, interval |-> interval]

\* event.recurrence is undefined
NoRecurrence == Rec("undefined", NoDays, NoInterval)

RecNone == Rec("none", NoDays, NoInterval)

T(h, m) == <<h \div 10, h % 10, m \div 10, m % 10>>

Seq2Set(s) == {s[i] : i \in DOMAIN s}

(***************************************************************************)
(* Recurrence matching: MonthlyCalendar.getEventsForDay                    *)
(***************************************************************************)
SingleMatch_Instant(event, day) == getTime(event.date) = getTime(day)

SingleMatch(event, day) == isSameDay(event.date, day)

DailyMatch_AfterStart(event, day) == day.day >= event.date.day

DailyMatch(event, day) == TRUE

WeeklyMatch_AnchorWeekday(event, day) ==
    IF Len(event.recurrence.days) > 0
    THEN formatEEEE(day) \in Seq2Set(event.recurrence.days)
    ELSE getDay(event.date) = getDay(day)

WeeklyMatch_AnchorToo(event, day) ==
    IF Len(event.recurrence.days) > 0
    THEN formatEEEE(day) \in Seq2Set(event.recurrence.days)
         \/ isSameDay(event.date, day)
    ELSE isSameDay(event.date, day)

WeeklyMatch(event, day) ==
    IF Len(event.recurrence.days) > 0
    THEN formatEEEE(day) \in Seq2Set(event.recurrence.days)
    ELSE isSameDay(event.date, day)

MonthlyMatch_Clamped(event, day) ==
    \/ getDate(day) = getDate(event.date)
    \/ /\ getDate(event.date) > DaysInMonth(getFullYear(day), getMonth(day))
       /\ getDate(day) = DaysInMonth(getFullYear(day), getMonth(day))

MonthlyMatch(event, day) == getDate(day) = getDate(event.date)

CustomMatch(event, day) ==
    IF event.recurrence.interval > 0
    THEN LET diffInDays ==
                 MathRound(getTime(day) - getTime(event.date), MinutesPerDay)
             diffInWeeks == MathFloor(diffInDays, 7)
         IN  JSRem(diffInWeeks, event.recurrence.interval) = 0
    ELSE FALSE

\* the filter predicate of getEventsForDay
occursOn(event, day) ==
    IF event.recurrence = NoRecurrence \/ event.recurrence.type = "none"
    THEN SingleMatch(event, day)
    ELSE CASE event.recurrence.type = "daily" -> DailyMatch(event, day)
           [] event.recurrence.type = "weekly" -> WeeklyMatch(event, day)
           [] event.recurrence.type = "monthly" -> MonthlyMatch(event, day)
           [] event.recurrence.type = "custom" -> CustomMatch(event, day)
           [] OTHER -> isSameDay(event.date, day)

eventsToUse == IF Len(events) > 0 THEN events ELSE localEvents

getEventsForDay(day) ==
    LET keep(event) == occursOn(event, day)
    IN  SelectSeq(eventsToUse, keep)


(***************************************************************************)
(* Home: state after mount, helpers                                        *)
(***************************************************************************)
EmptyId == 0

Event(id, title, date, startTime, endTime, description, color, recurrence) ==
    [id |-> id, title |-> title, date |-> date, startTime |-> startTime,
     endTime |-> endTime, description |-> description, color |-> color,
     recurrence |-> recurrence]

\* selectedEvent is null
NullEvent ==
    Event(-1, "", Midnight(0), T(0, 0), T(0, 0), "", "", NoRecurrence)

\* the default events of the mount effect; d is new Date()
DefaultEvents(d) ==
    <<Event(1, "Team Meeting", [day |-> d.day, tod |-> 600], T(10, 0),
            T(11, 30), "Weekly team sync", "green",
            Rec("weekly", <<"Monday">>, NoInterval)),
      Event(2, "Dentist Appointment", [day |-> d.day + 2, tod |-> d.tod],
            T(14, 0), T(15, 0), "Regular checkup", "blue", RecNone)>>

\* JSON.stringify followed by the load effect's JSON.parse and map: dates
\* come back as the same instants, a missing recurrence becomes {type: none}
parseSaved(saved) ==
    [i \in DOMAIN saved |->
        [saved[i] EXCEPT !.recurrence =
            IF @ = NoRecurrence THEN RecNone ELSE @]]

\* "HH:MM".split(":").map(Number), hours * 60 + minutes
timeToMinutes(time) ==
    LET hours == time[1] * 10 + time[2]
        minutes == time[3] * 10 + time[4]
    IN  hours * 60 + minutes

\* the string comparison a >= b of two "HH:MM" strings (lexicographic)
RECURSIVE StrGeqFrom(_, _, _)
StrGeqFrom(a, b, i) ==
    IF i > Len(a) \/ i > Len(b) THEN Len(a) >= Len(b)
    ELSE IF a[i] # b[i] THEN a[i] > b[i]
    ELSE StrGeqFrom(a, b, i + 1)

StrGeq_Strict(a, b) == StrGeqFrom(a, b, 1) /\ a # b

StrGeq(a, b) == StrGeqFrom(a, b, 1)

Overlap_Closed(aStart, aEnd, bStart, bEnd) ==
    aStart <= bEnd /\ aEnd >= bStart

\* eventStart < existingEnd && eventEnd > existingStart
Overlap(aStart, aEnd, bStart, bEnd) == aStart < bEnd /\ aEnd > bStart

sameDateFields(a, b) ==
    /\ getFullYear(a) = getFullYear(b)
    /\ getMonth(a) = getMonth(b)
    /\ getDate(a) = getDate(b)

\* Home.checkForEventConflicts, reading events and isNewEvent
checkForEventConflicts(eventData) ==
    \E i \in DOMAIN events :
        /\ ~(~isNewEvent /\ events[i].id = eventData.id)
        /\ sameDateFields(events[i].date, eventData.date)
        /\ Overlap(timeToMinutes(eventData.startTime),
                   timeToMinutes(eventData.endTime),
                   timeToMinutes(events[i].startTime),
                   timeToMinutes(events[i].endTime))

checkForConflicts_NoSkip(event, targetDate) ==
    \E i \in DOMAIN events :
        /\ sameDateFields(events[i].date, targetDate)
        /\ Overlap(timeToMinutes(event.startTime),
                   timeToMinutes(event.endTime),
                   timeToMinutes(events[i].startTime),
                   timeToMinutes(events[i].endTime))

\* Home.checkForConflicts(event, targetDate)
checkForConflicts(event, targetDate) ==
    \E i \in DOMAIN events :
        /\ events[i].id # event.id
        /\ sameDateFields(events[i].date, targetDate)
        /\ Overlap(timeToMinutes(event.startTime),
                   timeToMinutes(event.endTime),
                   timeToMinutes(events[i].startTime),
                   timeToMinutes(events[i].endTime))

shiftedDate_Floor(date, newDate) ==
    LET diffTime == getTime(newDate) - getTime(date)
        diffDays == MathFloor(diffTime, MinutesPerDay)
    IN  [day |-> date.day + diffDays, tod |-> date.tod]

\* the date updateEventDate stores for an event dated date moved to newDate
shiftedDate(date, newDate) ==
    LET diffTime == getTime(newDate) - getTime(date)
        diffDays == MathCeil(diffTime, MinutesPerDay)
    IN  [day |-> date.day + diffDays, tod |-> date.tod]

updateEventDate_ResetRecurrence(eventId, newDate) ==
    [i \in DOMAIN events |->
        IF events[i].id = eventId
        THEN [events[i] EXCEPT !.date = shiftedDate(events[i].date, newDate),
                               !.recurrence = RecNone]
        ELSE events[i]]

\* the collection updateEventDate passes to setEvents
updateEventDate(eventId, newDate) ==
    [i \in DOMAIN events |->
        IF events[i].id = eventId
        THEN [events[i] EXCEPT !.date = shiftedDate(events[i].date, newDate)]
        ELSE events[i]]

\* a missing date, and the empty string of a cleared time input
NoDate == [day |-> -1, tod |-> 0]
EmptyTime == <<>>

\* the titles made of white space only, and String.trim on a title that
\* has no white space at its ends unless it is all white space
BlankTitles == {"", " "}
trim(title) == IF title \in BlankTitles THEN "" ELSE title

validateForm_RecurrenceFirst(event) ==
    IF trim(event.title) = ""
    THEN [valid |-> FALSE, message |-> "Event title is required"]
    ELSE IF event.date = NoDate
    THEN [valid |-> FALSE, message |-> "Event date is required"]
    ELSE IF event.startTime = EmptyTime
    THEN [valid |-> FALSE, message |-> "Start time is required"]
    ELSE IF event.endTime = EmptyTime
    THEN [valid |-> FALSE, message |-> "End time is required"]
    ELSE IF event.recurrence.type = "weekly"
            /\ Len(event.recurrence.days) = 0
    THEN [valid |-> FALSE,
          message |-> "Please select at least one day for weekly recurrence"]
    ELSE IF event.recurrence.type = "custom" /\ event.recurrence.interval < 1
    THEN [valid |-> FALSE,
          message |-> "Custom recurrence interval must be at least 1"]
    ELSE IF StrGeq(event.startTime, event.endTime)
    THEN [valid |-> FALSE, message |-> "End time must be after start time"]
    ELSE [valid |-> TRUE, message |-> ""]

\* EventForm.validateForm on the form's event
validateForm(event) ==
    IF trim(event.title) = ""
    THEN [valid |-> FALSE, message |-> "Event title is required"]
    ELSE IF event.date = NoDate
    THEN [valid |-> FALSE, message |-> "Event date is required"]
    ELSE IF event.startTime = EmptyTime
    THEN [valid |-> FALSE, message |-> "Start time is required"]
    ELSE IF event.endTime = EmptyTime
    THEN [valid |-> FALSE, message |-> "End time is required"]
    ELSE IF StrGeq(event.startTime, event.endTime)
    THEN [valid |-> FALSE, message |-> "End time must be after start time"]
    ELSE IF event.recurrence.type = "weekly"
            /\ Len(event.recurrence.days) = 0
    THEN [valid |-> FALSE,
          message |-> "Please select at least one day for weekly recurrence"]
    ELSE IF event.recurrence.type = "custom" /\ event.recurrence.interval < 1
    THEN [valid |-> FALSE,
          message |-> "Custom recurrence interval must be at least 1"]
    ELSE [valid |-> TRUE, message |-> ""]

\* what the last handler did; message is the text of its alert, if any
Op(op, hasConflict, confirmed, eventData, newDate) ==
    [op |-> op, hasConflict |-> hasConflict, confirmed |-> confirmed,
     eventData |-> eventData, newDate |-> newDate, message |-> ""]

\* the ids of a collection
IdsOf(collection) == {collection[i].id : i \in DOMAIN collection}

NoOp == Op("mount", FALSE, FALSE, NullEvent, Midnight(0))

(***************************************************************************)
(* Inputs                                                                  *)
(***************************************************************************)
\* 2024-06-03, a Monday
Jun3 == 31 + 29 + 31 + 30 + 31 + 2

\* new Date() at mount: Monday 2024-06-03, 15:00
NowDates == {[day |-> Jun3, tod |-> 900]}

\* the grid days the user clicks, picks in the form or drops on
GridDays == {Jun3, Jun3 + 2}

\* Date.now() when the page is mounted, larger than the default ids 1 and
\* 2; every user action happens at least one tick after the one before
ClockStart == 10

\* start and end times typed into the form
FormTimes ==
    {<<T(14, 30), T(15, 30)>>, <<T(15, 0), T(16, 0)>>, <<T(15, 0), T(14, 0)>>,
     <<T(15, 0), T(15, 0)>>}

\* recurrences chosen in the form
FormRecurrences ==
    {Rec("daily", NoDays, NoInterval), Rec("monthly", NoDays, NoInterval)}

\* titles typed into a blank form
FormTitles == {"Review"}

\* the values the form's event can hold when Save is pressed, the form
\* having been opened on eventData
FormEvents(eventData) ==
    {[eventData EXCEPT !.title = ti, !.date = d, !.startTime = tp[1],
                       !.endTime = tp[2], !.recurrence = r] :
        ti \in (IF eventData.title = "" THEN FormTitles
                ELSE {eventData.title}),
        d \in {eventData.date} \cup {Midnight(n) : n \in GridDays},
        tp \in {<<eventData.startTime, eventData.endTime>>} \cup FormTimes,
        r \in {eventData.recurrence} \cup FormRecurrences}

(***************************************************************************)
(* Home: actions                                                           *)
(***************************************************************************)
\* setEvents(newEvents) and the effects of the commit: MonthlyCalendar's
\* load effect (a child, so it runs first and reads what storage held
\* before) when events.length became 0, then Home's save effect
SetEvents(newEvents) ==
    /\ events' = newEvents
    /\ localEvents' = IF Len(newEvents) = 0 /\ Len(events) # 0
                      THEN parseSaved(storage)
                      ELSE localEvents
    /\ storage' = newEvents

\* the collections an earlier session may have left in localStorage
SavedCollections(d) == {<<DefaultEvents(d)[2]>>}

\* the state after the mount: MonthlyCalendar's load effect runs while
\* events is still empty and fills localEvents from storage, Home's load
\* effect sets events to the saved collection or, without one, to the
\* default events, and Home's save effect stores events
Init ==
    /\ now \in NowDates
    /\ \/ /\ events = DefaultEvents(now)
          /\ localEvents = <<>>
       \/ \E saved \in SavedCollections(now) :
             /\ events = parseSaved(saved)
             /\ localEvents = parseSaved(saved)
    /\ storage = events
    /\ isEditMode = FALSE
    /\ everIds = IdsOf(events)
    /\ formEvent = NullEvent
    /\ selectedEvent = NullEvent
    /\ isNewEvent = TRUE
    /\ isEventFormOpen = FALSE
    /\ clock = ClockStart
    /\ lastOp = NoOp
    /\ viewDay = NoDate
    /\ shown = <<>>

\* Home.handleAddEvent(date): a day cell click passes the grid day, the
\* header button and the calendar's Add Event button pass new Date()
HandleAddEvent(date) ==
    /\ ~isEventFormOpen
    /\ isNewEvent' = TRUE
    /\ selectedEvent' =
           Event(EmptyId, "", date, T(9, 0), T(10, 0), "", "green", RecNone)
    /\ isEventFormOpen' = TRUE
    /\ lastOp' = Op("handleAddEvent", FALSE, FALSE, NullEvent, date)
    /\ UNCHANGED <<events, localEvents, storage, now, viewDay, shown>>

\* MonthlyCalendar.handleEventClick(eventId) calling Home.handleEditEvent
HandleEditEvent(eventId) ==
    /\ ~isEventFormOpen
    /\ \E i \in DOMAIN eventsToUse :
          /\ eventsToUse[i].id = eventId
          /\ \A j \in 1..(i - 1) : eventsToUse[j].id # eventId
          /\ selectedEvent' = eventsToUse[i]
    /\ isNewEvent' = FALSE
    /\ isEventFormOpen' = TRUE
    /\ lastOp' = Op("handleEditEvent", FALSE, FALSE, NullEvent, NoDate)
    /\ UNCHANGED <<events, localEvents, storage, now, viewDay, shown>>

\* the eventData prop Home gives the form
FormProp ==
    [selectedEvent EXCEPT
        !.color = IF @ = "" THEN "blue" ELSE @,
        !.recurrence = IF @ = NoRecurrence THEN RecNone ELSE @]

savedEvents_KeepId(eventData) ==
    IF isNewEvent
    THEN Append(events, eventData)
    ELSE [i \in DOMAIN events |->
             IF events[i].id = eventData.id THEN eventData ELSE events[i]]

\* the collection handleSaveEvent stores, Date.now() being clock
savedEvents(eventData) ==
    IF isNewEvent
    THEN Append(events, [eventData EXCEPT !.id = clock])
    ELSE [i \in DOMAIN events |->
             IF events[i].id = eventData.id THEN eventData ELSE events[i]]

proceeds_Always(hasConflict, answer) == TRUE

\* whether a handler goes on after its conflict check: confirm() is
\* called only on a conflict and answer is what it returns
proceeds(hasConflict, answer) == ~hasConflict \/ answer

\* EventForm.handleSave: validateForm, then Home.handleSaveEvent as onSave,
\* then onClose
HandleSave(eventData, answer) ==
    /\ isEventFormOpen
    /\ IF ~validateForm(eventData).valid
       THEN /\ lastOp' = [Op("alert", FALSE, FALSE, eventData, NoDate)
                           EXCEPT !.message = validateForm(eventData).message]
            /\ UNCHANGED <<events, localEvents, storage, isEventFormOpen>>
       ELSE LET hasConflict == checkForEventConflicts(eventData)
            IN  /\ lastOp' = Op("handleSaveEvent", hasConflict,
                                hasConflict /\ answer, eventData, NoDate)
                /\ isEventFormOpen' = FALSE
                /\ IF proceeds(hasConflict, answer)
                   THEN SetEvents(savedEvents(eventData))
                   ELSE UNCHANGED <<events, localEvents, storage>>
    /\ UNCHANGED <<selectedEvent, isNewEvent, now, viewDay, shown>>

\* EventForm.confirmDelete: Home.handleDeleteEvent as onDelete, then onClose
HandleDeleteEvent(eventId) ==
    /\ isEventFormOpen
    /\ ~isNewEvent
    /\ LET keep(e) == e.id # eventId
       IN  SetEvents(SelectSeq(events, keep))
    /\ isEventFormOpen' = FALSE
    /\ lastOp' = Op("handleDeleteEvent", FALSE, FALSE, NullEvent, NoDate)
    /\ UNCHANGED <<selectedEvent, isNewEvent, now, viewDay, shown>>

\* the form's Cancel button and the dialog's onOpenChange
CloseForm ==
    /\ isEventFormOpen
    /\ isEventFormOpen' = FALSE
    /\ lastOp' = Op("onClose", FALSE, FALSE, NullEvent, NoDate)
    /\ UNCHANGED <<events, localEvents, storage, selectedEvent, isNewEvent,
                   now, viewDay, shown>>

\* Home.handleDragEvent(eventId, newDate)
HandleDragEvent(eventId, newDate, answer) ==
    /\ ~isEventFormOpen
    /\ LET found == {i \in DOMAIN events : events[i].id = eventId}
       IN  IF found = {}
           THEN /\ lastOp' = Op("handleDragEvent", FALSE, FALSE, NullEvent,
                                newDate)
                /\ UNCHANGED <<events, localEvents, storage>>
           ELSE LET draggedEvent ==
                        events[CHOOSE i \in found : \A j \in found : i <= j]
                    hasConflict == checkForConflicts(draggedEvent, newDate)
                IN  /\ lastOp' = Op("handleDragEvent", hasConflict,
                                    hasConflict /\ answer, draggedEvent,
                                    newDate)
                    /\ IF proceeds(hasConflict, answer)
                       THEN SetEvents(updateEventDate(eventId, newDate))
                       ELSE UNCHANGED <<events, localEvents, storage>>
    /\ UNCHANGED <<selectedEvent, isNewEvent, isEventFormOpen, now, viewDay,
                   shown>>

\* the ids of the events some day cell shows
ShownIds == {eventsToUse[i].id : i \in DOMAIN eventsToUse}

\* a user action, at a later tick of the clock
UserAction ==
    \/ \E n \in GridDays : HandleAddEvent(Midnight(n))
    \/ HandleAddEvent(now)
    \/ \E id \in ShownIds : HandleEditEvent(id)
    \/ \E eventData \in FormEvents(FormProp), answer \in BOOLEAN :
          HandleSave(eventData, answer)
    \/ HandleDeleteEvent(selectedEvent.id)
    \/ CloseForm
    \/ \E id \in ShownIds, n \in GridDays, answer \in BOOLEAN :
          HandleDragEvent(id, Midnight(n), answer)

\* everIds collects every id the collection has held
Next ==
    /\ clock < ClockStart + MaxActions
    /\ clock' = clock + 1
    /\ UserAction
    /\ everIds' = everIds \cup IdsOf(events')
    /\ UNCHANGED <<isEditMode, formEvent>>

Spec == Init /\ [][Next]_vars

(***************************************************************************)
(* MonthlyCalendar rendering the events prop: one day cell at a time       *)
(***************************************************************************)
\* 2024-05-31, a Friday
May31 == Jun3 - 3

PropTods == {0, 600, 900}

PropRecurrences ==
    {NoRecurrence, RecNone,
     Rec("daily", NoDays, NoInterval),
     Rec("weekly", NoDays, NoInterval),
     Rec("weekly", <<"Monday">>, NoInterval),
     Rec("weekly", <<"Monday", "Wednesday">>, NoInterval),
     Rec("monthly", NoDays, NoInterval),
     Rec("custom", NoDays, NoInterval),
     Rec("custom", NoDays, 1),
     Rec("custom", NoDays, 2)}

PropEvents ==
    {Event(7, "Review", [day |-> n, tod |-> t], T(9, 0), T(10, 0), "",
           "green", r) :
        n \in {May31, Jun3}, t \in PropTods, r \in PropRecurrences}

Companion ==
    Event(8, "Lunch", Midnight(Jun3 + 1), T(12, 0), T(13, 0), "", "red",
          RecNone)

InitRender ==
    /\ now \in NowDates
    /\ \E e \in PropEvents : events \in {<<e>>, <<Companion, e>>}
    /\ localEvents = <<>>
    /\ storage = events
    /\ isEditMode = FALSE
    /\ everIds = IdsOf(events)
    /\ formEvent = NullEvent
    /\ selectedEvent = NullEvent
    /\ isNewEvent = TRUE
    /\ isEventFormOpen = FALSE
    /\ clock = ClockStart
    /\ lastOp = NoOp
    /\ viewDay = NoDate
    /\ shown = <<>>

\* the grid computing the events prop of the cell of day n
RenderDay(n) ==
    /\ viewDay' = Midnight(n)
    /\ shown' = getEventsForDay(Midnight(n))
    /\ UNCHANGED <<events, localEvents, storage, selectedEvent, isNewEvent,
                   isEventFormOpen, clock, now, lastOp>>

\* each behaviour looks at one cell
NextRender ==
    /\ viewDay = NoDate
    /\ \E n \in DayRange : RenderDay(n)
    /\ UNCHANGED <<isEditMode, everIds, formEvent>>

SpecRender == InitRender /\ [][NextRender]_vars

(***************************************************************************)
(* updateEventDate applied to any event date and any target date           *)
(***************************************************************************)
RelocateDays == (Jun3 - 2)..(Jun3 + 3)

InitRelocate ==
    /\ now \in NowDates
    /\ \E n \in RelocateDays, t \in PropTods :
          events = <<Event(7, "Review", [day |-> n, tod |-> t], T(9, 0),
                           T(10, 0), "", "green", RecNone)>>
    /\ localEvents = <<>>
    /\ storage = events
    /\ isEditMode = FALSE
    /\ everIds = IdsOf(events)
    /\ formEvent = NullEvent
    /\ selectedEvent = NullEvent
    /\ isNewEvent = TRUE
    /\ isEventFormOpen = FALSE
    /\ clock = ClockStart
    /\ lastOp = NoOp
    /\ viewDay = NoDate
    /\ shown = <<>>

UpdateEventDate(eventId, newDate) ==
    /\ \E i \in DOMAIN events : events[i].id = eventId
    /\ SetEvents(updateEventDate(eventId, newDate))
    /\ lastOp' = Op("updateEventDate", FALSE, FALSE,
                    events[CHOOSE i \in DOMAIN events :
                               events[i].id = eventId],
                    newDate)
    /\ UNCHANGED <<selectedEvent, isNewEvent, isEventFormOpen, now, viewDay,
                   shown>>

NextRelocate ==
    /\ clock < ClockStart + MaxShifts
    /\ clock' = clock + 1
    /\ \E n \in RelocateDays, t \in PropTods :
          UpdateEventDate(7, [day |-> n, tod |-> t])
    /\ UNCHANGED <<isEditMode, everIds, formEvent>>

SpecRelocate == InitRelocate /\ [][NextRelocate]_vars

(***************************************************************************)
(* Properties of the rendered cell (SpecRender)                            *)
(***************************************************************************)
Rendered == viewDay # NoDate

IsShown(e) == \E j \in DOMAIN shown : shown[j] = e

\* the calendar day (year, month, day of month) of a date
CalendarDay(d) == Civil[d.day]

\* weekday names counted from a known Monday, 2024-06-03
MondayFirst ==
    <<"Monday", "Tuesday", "Wednesday", "Thursday", "Friday", "Saturday",
      "Sunday">>

WeekdayOf(d) == MondayFirst[((d.day - Jun3) % 7) + 1]

IsSingle(e) == e.recurrence = NoRecurrence \/ e.recurrence.type = "none"

\* C1: an event without recurrence, or with type none, is in
\* getEventsForDay(d) exactly when d is the calendar day of its date,
\* whatever the time of day of its date
C1_SingleOnItsDay ==
    Rendered =>
        \A i \in DOMAIN events :
            IsSingle(events[i]) =>
                (IsShown(events[i])
                    <=> CalendarDay(viewDay) = CalendarDay(events[i].date))

C1_Witness ==
    /\ Rendered
    /\ \E i \in DOMAIN events :
          /\ IsSingle(events[i])
          /\ events[i].date.tod # 0
          /\ events[i].date.day = viewDay.day
          /\ IsShown(events[i])

\* C2: a weekly event with a non-empty days list occurs on d exactly when
\* the weekday name of d is in days, whatever its anchor date; anchored on
\* Monday 2024-06-03 with days = [Monday] it occurs on 2024-06-10 and not
\* on 2024-06-11
C2_WeeklyByWeekdayName ==
    Rendered =>
        \A i \in DOMAIN events :
            LET e == events[i] IN
            (e.recurrence.type = "weekly" /\ Len(e.recurrence.days) > 0) =>
                /\ IsShown(e) <=> WeekdayOf(viewDay) \in Seq2Set(e.recurrence.days)
                /\ (e.date.day = Jun3 /\ e.recurrence.days = <<"Monday">>) =>
                      /\ viewDay.day = Jun3 + 7 => IsShown(e)
                      /\ viewDay.day = Jun3 + 8 => ~IsShown(e)

C2_Witness ==
    /\ Rendered
    /\ viewDay.day = Jun3 + 7
    /\ \E i \in DOMAIN events :
          /\ events[i].recurrence = Rec("weekly", <<"Monday">>, NoInterval)
          /\ events[i].date.day = Jun3
          /\ IsShown(events[i])

IsWeeklyNoDays(e) ==
    e.recurrence.type = "weekly" /\ Len(e.recurrence.days) = 0

\* C3 as stated: a weekly event with an empty or absent days list occurs
\* on exactly the days whose weekday is the weekday of its anchor date
C3_WeeklyNoDaysAnchorWeekday ==
    Rendered =>
        \A i \in DOMAIN events :
            IsWeeklyNoDays(events[i]) =>
                (IsShown(events[i])
                    <=> WeekdayOf(viewDay) = WeekdayOf(events[i].date))

\* C3 amended: a weekly event with an empty or absent days list occurs on
\* exactly one day, the calendar day of its anchor date
C3_WeeklyNoDaysAnchorDayOnly ==
    Rendered =>
        \A i \in DOMAIN events :
            IsWeeklyNoDays(events[i]) =>
                (IsShown(events[i])
                    <=> CalendarDay(viewDay) = CalendarDay(events[i].date))

C3_Witness ==
    /\ Rendered
    /\ \E i \in DOMAIN events :
          /\ IsWeeklyNoDays(events[i])
          /\ viewDay.day = events[i].date.day + 7
          /\ ~IsShown(events[i])

\* C4: a custom event with interval 2, whatever the time of day of its
\* anchor, occurs on the grid day 14 * k days from the anchor's calendar
\* day and not on the grid day 14 * k + 7 days from it, for k in -8..8
C4_CustomEveryTwoWeeks ==
    Rendered =>
        \A i \in DOMAIN events :
            LET e == events[i] IN
            (e.recurrence.type = "custom" /\ e.recurrence.interval = 2) =>
                \A k \in (-MaxCycles)..MaxCycles :
                    /\ viewDay.day = e.date.day + 14 * k => IsShown(e)
                    /\ viewDay.day = e.date.day + 14 * k + 7 => ~IsShown(e)

IsMonthly(e) == e.recurrence.type = "monthly"

\* the days of 2024 that are the 31st of a month, and the days of its
\* 30-day months
ThirtyFirsts == {30, 90, 151, 212, 243, 304, 365}
ThirtyDayMonths == (91..120) \cup (152..181) \cup (244..273) \cup (305..334)

\* C5: a monthly event occurs on d exactly when the day of month of d is
\* that of its anchor; anchored on the 31st it occurs on no day of a 30-day
\* month and on the 31st of every 31-day month
C5_MonthlyByDayOfMonth ==
    Rendered =>
        \A i \in DOMAIN events :
            LET e == events[i] IN
            IsMonthly(e) =>
                /\ IsShown(e)
                      <=> CalendarDay(viewDay).date = CalendarDay(e.date).date
                /\ e.date.day = May31 =>
                      /\ viewDay.day \in ThirtyDayMonths => ~IsShown(e)
                      /\ viewDay.day \in ThirtyFirsts => IsShown(e)

C5_Witness ==
    /\ Rendered
    /\ viewDay.day = 181
    /\ \E i \in DOMAIN events :
          /\ IsMonthly(events[i])
          /\ events[i].date.day = May31
          /\ ~IsShown(events[i])

SaveStep == lastOp'.op = "handleSaveEvent"

\* the event at index i of the collection is the one the form is editing
IsEdited(i, candidate) == ~isNewEvent /\ events[i].id = candidate.id

\* the time ranges of a and b overlap, in minutes since midnight
RangesOverlap(a, b) ==
    /\ timeToMinutes(a.startTime) < timeToMinutes(b.endTime)
    /\ timeToMinutes(a.endTime) > timeToMinutes(b.startTime)

\* C7: on the save path the conflict check is true exactly when the
\* collection holds an event, other than the one being edited, whose date
\* is on the calendar day of the candidate's date and whose range overlaps
\* the candidate's; ranges that only touch do not conflict (14:00-15:00
\* against 14:30-15:30 conflicts, against 15:00-16:00 does not)
C7_SaveConflictIffSameDayOverlap ==
    [][SaveStep =>
         LET candidate == lastOp'.eventData IN
         /\ lastOp'.hasConflict <=>
                \E i \in DOMAIN events :
                    /\ ~IsEdited(i, candidate)
                    /\ events[i].date.day = candidate.date.day
                    /\ RangesOverlap(candidate, events[i])
         /\ \A i \in DOMAIN events :
                (/\ ~IsEdited(i, candidate)
                 /\ events[i].date.day = candidate.date.day
                 /\ events[i].startTime = T(14, 0)
                 /\ events[i].endTime = T(15, 0)
                 /\ candidate.startTime = T(14, 30)
                 /\ candidate.endTime = T(15, 30)) => lastOp'.hasConflict
         /\ (/\ candidate.startTime = T(15, 0)
             /\ candidate.endTime = T(16, 0)
             /\ \A i \in DOMAIN events :
                    (~IsEdited(i, candidate)
                     /\ events[i].date.day = candidate.date.day) =>
                        events[i].endTime = T(15, 0))
                => ~lastOp'.hasConflict
      ]_vars

\* a save of 15:00-16:00 on the day of the 14:00-15:00 event: no conflict
C7_Witness ==
    /\ lastOp.op = "handleSaveEvent"
    /\ ~lastOp.hasConflict
    /\ lastOp.eventData.startTime = T(15, 0)
    /\ \E i \in DOMAIN events :
          /\ events[i].id # lastOp.eventData.id
          /\ events[i].id = 2
          /\ events[i].endTime = T(15, 0)
          /\ events[i].date.day = lastOp.eventData.date.day

\* C8: whenever the candidate being saved and an existing event both occur
\* (per getEventsForDay) on some same calendar day and their time ranges
\* overlap, the save path detects the conflict and asks the user
C8_SaveDetectsOccurrenceOverlap ==
    [][SaveStep =>
         LET candidate == lastOp'.eventData IN
         (\E i \in DOMAIN events :
             /\ ~IsEdited(i, candidate)
             /\ RangesOverlap(candidate, events[i])
             /\ \E n \in DayRange :
                   /\ occursOn(events[i], Midnight(n))
                   /\ occursOn(candidate, Midnight(n)))
            => lastOp'.hasConflict
      ]_vars

\* C9: when the conflict check of a save or of a drag returns true and
\* the user declines, the collection after the operation is the collection
\* before it
C9_DeclinedConflictKeepsCollection ==
    [][(/\ lastOp'.op \in {"handleSaveEvent", "handleDragEvent"}
        /\ lastOp'.hasConflict
        /\ ~lastOp'.confirmed) => events' = events
      ]_vars

C9_Witness ==
    /\ lastOp.op = "handleDragEvent"
    /\ lastOp.hasConflict
    /\ ~lastOp.confirmed

(***************************************************************************)
(* EventForm on its own: the form's event, edited field by field, and Save *)
(***************************************************************************)
\* the default value of the eventData prop
DefaultEventData(d) ==
    Event(EmptyId, "", d, T(9, 0), T(10, 0), "", "blue", RecNone)

\* the eventData prop the form is mounted with: the default, an existing
\* weekly event, and event data without a date (the button then shows
\* "Pick a date")
EventDataProps(d) ==
    {DefaultEventData(d), [DefaultEventData(d) EXCEPT !.date = NoDate],
     DefaultEvents(d)[1]}

\* what the user types into the title and time inputs (a cleared time
\* input holds the empty string) and into the interval input
TypedTitles == {"", " ", "Review"}
TypedStartTimes == {EmptyTime, T(15, 0)}
TypedEndTimes == {EmptyTime, T(14, 0), T(15, 0), T(16, 0)}
TypedIntervals == {-1, 0, 2}

\* the weekday checkboxes the user toggles
ToggledDays == {"Monday", "Wednesday"}

RecurrenceTypes == {"none", "daily", "weekly", "monthly", "custom"}

InitForm ==
    /\ now \in NowDates
    /\ formEvent \in EventDataProps(now)
    /\ isEventFormOpen = TRUE
    /\ lastOp = NoOp
    /\ events = <<>>
    /\ localEvents = <<>>
    /\ storage = <<>>
    /\ isEditMode = FALSE
    /\ everIds = {}
    /\ selectedEvent = NullEvent
    /\ isNewEvent = TRUE
    /\ clock = ClockStart
    /\ viewDay = NoDate
    /\ shown = <<>>

\* setEvent(...) with the new value of the form's event
SetEvent(newEvent) ==
    /\ isEventFormOpen
    /\ formEvent' = newEvent
    /\ lastOp' = Op("setEvent", FALSE, FALSE, NullEvent, NoDate)
    /\ UNCHANGED isEventFormOpen

\* handleInputChange(field, value) from the title input, the date picker
\* and the two time inputs
HandleInputChange ==
    \/ \E title \in TypedTitles : SetEvent([formEvent EXCEPT !.title = title])
    \/ \E n \in GridDays : SetEvent([formEvent EXCEPT !.date = Midnight(n)])
    \/ \E time \in TypedStartTimes :
          SetEvent([formEvent EXCEPT !.startTime = time])
    \/ \E time \in TypedEndTimes :
          SetEvent([formEvent EXCEPT !.endTime = time])

\* handleRecurrenceChange(type): days is [] for weekly, interval 1 for custom
HandleRecurrenceChange(type) ==
    SetEvent([formEvent EXCEPT !.recurrence =
                 Rec(type, NoDays, IF type = "custom" THEN 1 ELSE NoInterval)])

\* handleWeekdayToggle(day), the checkboxes being there for weekly only
HandleWeekdayToggle(day) ==
    /\ formEvent.recurrence.type = "weekly"
    /\ LET days == formEvent.recurrence.days
           other(d) == d # day
           updatedDays == IF day \in Seq2Set(days)
                          THEN SelectSeq(days, other)
                          ELSE Append(days, day)
       IN  SetEvent([formEvent EXCEPT !.recurrence.days = updatedDays])

\* the interval input, there for custom only: parseInt(value) || 1
HandleIntervalChange(value) ==
    /\ formEvent.recurrence.type = "custom"
    /\ SetEvent([formEvent EXCEPT
                    !.recurrence.interval = IF value = 0 THEN 1 ELSE value])

\* EventForm.handleSave with the callbacks of the props: alert and return
\* when validateForm fails, onSave(event) and onClose() otherwise
FormHandleSave ==
    /\ isEventFormOpen
    /\ IF ~validateForm(formEvent).valid
       THEN /\ lastOp' = [Op("alert", FALSE, FALSE, formEvent, NoDate)
                           EXCEPT !.message = validateForm(formEvent).message]
            /\ UNCHANGED isEventFormOpen
       ELSE /\ lastOp' = Op("onSave", FALSE, FALSE, formEvent, NoDate)
            /\ isEventFormOpen' = FALSE
    /\ UNCHANGED formEvent

NextForm ==
    /\ \/ HandleInputChange
       \/ \E type \in RecurrenceTypes : HandleRecurrenceChange(type)
       \/ \E day \in ToggledDays : HandleWeekdayToggle(day)
       \/ \E value \in TypedIntervals : HandleIntervalChange(value)
       \/ FormHandleSave
    /\ UNCHANGED <<events, localEvents, storage, selectedEvent, isNewEvent,
                   clock, now, viewDay, shown, isEditMode, everIds>>

SpecForm == InitForm /\ [][NextForm]_vars

(***************************************************************************)
(* MonthlyCalendar on its own: no events prop and no handler props, the    *)
(* events kept in localEvents                                              *)
(***************************************************************************)
\* what localStorage holds when the calendar is mounted
CalendarStorage(d) == {<<>>, DefaultEvents(d)}

\* the state after the mount: the load effect has filled localEvents
InitCalendar ==
    /\ now \in NowDates
    /\ events = <<>>
    /\ storage \in CalendarStorage(now)
    /\ localEvents = parseSaved(storage)
    /\ selectedEvent = NullEvent
    /\ isEditMode = FALSE
    /\ isEventFormOpen = FALSE
    /\ isNewEvent = TRUE
    /\ everIds = IdsOf(localEvents)
    /\ formEvent = NullEvent
    /\ clock = ClockStart
    /\ lastOp = NoOp
    /\ viewDay = NoDate
    /\ shown = <<>>

\* handleDayClick(date) without onAddEvent, from a day cell or from the
\* Add Event button
HandleDayClick(date) ==
    /\ ~isEventFormOpen
    /\ selectedEvent' = NullEvent
    /\ isEditMode' = FALSE
    /\ isEventFormOpen' = TRUE
    /\ lastOp' = Op("handleDayClick", FALSE, FALSE, NullEvent, date)
    /\ UNCHANGED localEvents

\* handleEventClick(eventId) without onEditEvent
HandleEventClick(eventId) ==
    /\ ~isEventFormOpen
    /\ \E i \in DOMAIN eventsToUse :
          /\ eventsToUse[i].id = eventId
          /\ \A j \in 1..(i - 1) : eventsToUse[j].id # eventId
          /\ selectedEvent' = eventsToUse[i]
    /\ isEditMode' = TRUE
    /\ isEventFormOpen' = TRUE
    /\ lastOp' = Op("handleEventClick", FALSE, FALSE, NullEvent, NoDate)
    /\ UNCHANGED localEvents

\* the collection MonthlyCalendar.handleAddEvent(eventData) passes to
\* setLocalEvents, Date.now() being clock
handleAddEvent(eventData) ==
    IF isEditMode /\ selectedEvent # NullEvent
    THEN [i \in DOMAIN localEvents |->
             IF localEvents[i].id = selectedEvent.id
             THEN eventData ELSE localEvents[i]]
    ELSE Append(localEvents,
                [eventData EXCEPT !.id = IF @ = EmptyId THEN clock ELSE @])

\* the eventData prop MonthlyCalendar gives the form: undefined, and so
\* the form's default, when no event is selected
CalendarFormProp ==
    IF selectedEvent = NullEvent
    THEN DefaultEventData(now)
    ELSE [selectedEvent EXCEPT
             !.color = IF @ = "" THEN "blue" ELSE @,
             !.recurrence = IF @ = NoRecurrence THEN RecNone ELSE @]

\* EventForm.handleSave with handleAddEvent as onSave
CalendarSave(eventData) ==
    /\ isEventFormOpen
    /\ IF ~validateForm(eventData).valid
       THEN /\ lastOp' = [Op("alert", FALSE, FALSE, eventData, NoDate)
                           EXCEPT !.message = validateForm(eventData).message]
            /\ UNCHANGED <<localEvents, isEventFormOpen>>
       ELSE /\ lastOp' = Op("handleAddEvent", FALSE, FALSE, eventData, NoDate)
            /\ localEvents' = handleAddEvent(eventData)
            /\ isEventFormOpen' = FALSE
    /\ UNCHANGED <<selectedEvent, isEditMode>>

\* EventForm.confirmDelete with MonthlyCalendar.handleDeleteEvent as
\* onDelete, the Delete button being there when isEditing
CalendarDelete(eventId) ==
    /\ isEventFormOpen
    /\ isEditMode
    /\ LET keep(e) == e.id # eventId
       IN  localEvents' = SelectSeq(localEvents, keep)
    /\ isEventFormOpen' = FALSE
    /\ lastOp' = Op("handleDeleteEvent", FALSE, FALSE, NullEvent, NoDate)
    /\ UNCHANGED <<selectedEvent, isEditMode>>

\* the form's Cancel button and the dialog's onOpenChange
CalendarClose ==
    /\ isEventFormOpen
    /\ isEventFormOpen' = FALSE
    /\ lastOp' = Op("onClose", FALSE, FALSE, NullEvent, NoDate)
    /\ UNCHANGED <<localEvents, selectedEvent, isEditMode>>

\* the onDrop of a day cell without onDragEvent: the dragged event with
\* the cell's date goes to handleAddEvent
OnDrop(eventId, date) ==
    /\ ~isEventFormOpen
    /\ LET found == {i \in DOMAIN eventsToUse : eventsToUse[i].id = eventId}
       IN  IF found = {}
           THEN /\ lastOp' = Op("onDrop", FALSE, FALSE, NullEvent, date)
                /\ UNCHANGED localEvents
           ELSE LET event ==
                        eventsToUse[CHOOSE i \in found :
                                        \A j \in found : i <= j]
                    updatedEvent == [event EXCEPT !.date = date]
                IN  /\ lastOp' = Op("onDrop", FALSE, FALSE, event, date)
                    /\ localEvents' = handleAddEvent(updatedEvent)
    /\ UNCHANGED <<selectedEvent, isEditMode, isEventFormOpen>>

\* a user action on the calendar, at a later tick of the clock
NextCalendar ==
    /\ clock < ClockStart + MaxActions
    /\ clock' = clock + 1
    /\ \/ \E n \in GridDays : HandleDayClick(Midnight(n))
       \/ HandleDayClick(now)
       \/ \E id \in ShownIds : HandleEventClick(id)
       \/ \E eventData \in FormEvents(CalendarFormProp) :
             CalendarSave(eventData)
       \/ CalendarDelete(selectedEvent.id)
       \/ CalendarClose
       \/ \E id \in ShownIds, n \in GridDays : OnDrop(id, Midnight(n))
    /\ everIds' = everIds \cup IdsOf(localEvents')
    /\ UNCHANGED <<events, storage, isNewEvent, now, viewDay, shown,
                   formEvent>>

SpecCalendar == InitCalendar /\ [][NextCalendar]_vars

(***************************************************************************)
(* Home: what a drag changes                                               *)
(***************************************************************************)
\* a step of handleDragEvent that found the event and went on to setEvents
CommittedDrag ==
    /\ lastOp'.op = "handleDragEvent"
    /\ lastOp'.eventData # NullEvent
    /\ ~lastOp'.hasConflict \/ lastOp'.confirmed

\* the state after a committed drag
DragCommitted ==
    /\ lastOp.op = "handleDragEvent"
    /\ lastOp.eventData # NullEvent
    /\ ~lastOp.hasConflict \/ lastOp.confirmed

\* C11: a committed drag changes only the date of the dragged event: its
\* id, title, times, description, color and recurrence stay, every other
\* event stays, and so do the number and the order of the events
C11_DragChangesOnlyDate ==
    [][CommittedDrag =>
          /\ Len(events') = Len(events)
          /\ \A i \in DOMAIN events :
                IF events[i].id = lastOp'.eventData.id
                THEN events'[i] = [events[i] EXCEPT !.date = events'[i].date]
                ELSE events'[i] = events[i]]_vars

\* the weekly event with days = [Monday] was dragged from 2024-06-03 to
\* 2024-06-05 and still has days = [Monday]
C11_Witness ==
    /\ DragCommitted
    /\ lastOp.eventData.date.day = Jun3
    /\ lastOp.eventData.recurrence.days = <<"Monday">>
    /\ lastOp.newDate.day = Jun3 + 2
    /\ \E i \in DOMAIN events :
          /\ events[i].id = lastOp.eventData.id
          /\ events[i].date.day = Jun3 + 2
          /\ events[i].recurrence = Rec("weekly", <<"Monday">>, NoInterval)

(***************************************************************************)
(* EventForm: validation                                                   *)
(***************************************************************************)
\* the messages of the validation rules, in the order of the rules
RuleMessages ==
    <<"Event title is required", "Event date is required",
      "Start time is required", "End time is required",
      "End time must be after start time",
      "Please select at least one day for weekly recurrence",
      "Custom recurrence interval must be at least 1">>

\* whether the form's event e breaks rule k, each rule taken by itself
\* (the time rule in minutes, for two times that are there)
BreaksRule(k, e) ==
    CASE k = 1 -> e.title \in BlankTitles
      [] k = 2 -> e.date = NoDate
      [] k = 3 -> e.startTime = EmptyTime
      [] k = 4 -> e.endTime = EmptyTime
      [] k = 5 -> /\ e.startTime # EmptyTime
                  /\ e.endTime # EmptyTime
                  /\ timeToMinutes(e.startTime) >= timeToMinutes(e.endTime)
      [] k = 6 -> e.recurrence.type = "weekly" /\ e.recurrence.days = <<>>
      [] k = 7 -> e.recurrence.type = "custom" /\ ~(e.recurrence.interval >= 1)

BrokenRules(e) == {k \in DOMAIN RuleMessages : BreaksRule(k, e)}

\* C12: handleSave calls onSave (and then onClose) only when every rule
\* passes; otherwise it reports the message of the first broken rule, in
\* the order title, date, start time, end time, start before end, weekly
\* days, custom interval, and calls neither onSave nor onClose
C12_FirstBrokenRuleReported ==
    [][lastOp'.op \in {"alert", "onSave"} =>
          IF BrokenRules(formEvent) = {}
          THEN /\ lastOp'.op = "onSave"
               /\ lastOp'.eventData = formEvent
               /\ ~isEventFormOpen'
          ELSE /\ lastOp'.op = "alert"
               /\ \E k \in BrokenRules(formEvent) :
                     /\ \A j \in BrokenRules(formEvent) : k <= j
                     /\ lastOp'.message = RuleMessages[k]
               /\ isEventFormOpen']_vars

\* Save was pressed on a form that breaks the title rule, the time order
\* rule and the weekly rule, and the title message was reported
C12_Witness ==
    /\ lastOp.op = "alert"
    /\ BrokenRules(lastOp.eventData) = {1, 5, 6}
    /\ lastOp.message = RuleMessages[1]
    /\ isEventFormOpen

(***************************************************************************)
(* Home: event ids                                                         *)
(***************************************************************************)
DistinctIds(collection) ==
    \A i, j \in DOMAIN collection :
        i # j => collection[i].id # collection[j].id

\* a step of handleSaveEvent that appended a new event
CreateStep ==
    /\ lastOp'.op = "handleSaveEvent"
    /\ isNewEvent
    /\ Len(events') = Len(events) + 1

\* a step of handleSaveEvent in edit mode or of handleDragEvent
EditOrDragStep ==
    \/ lastOp'.op = "handleSaveEvent" /\ ~isNewEvent
    \/ lastOp'.op = "handleDragEvent"

\* C13: the ids of the collection are pairwise distinct, an edit or a
\* drag changes no id, and a newly created event gets an id that no event
\* of the collection has or ever had
C13_IdsUniqueStableFresh ==
    [][/\ DistinctIds(events) /\ DistinctIds(events')
       /\ EditOrDragStep =>
             /\ Len(events') = Len(events)
             /\ \A i \in DOMAIN events : events'[i].id = events[i].id
       /\ CreateStep =>
             /\ events'[Len(events')].id \notin everIds
             /\ \A i \in DOMAIN events : events'[i] = events[i]]_vars

\* an event was created after another one had been deleted, and its id is
\* the time of the save
C13_Witness ==
    /\ lastOp.op = "handleSaveEvent"
    /\ isNewEvent
    /\ Len(events) > 0
    /\ events[Len(events)].id = clock - 1
    /\ everIds \ IdsOf(events) # {}

(***************************************************************************)
(* Home: saving an edit of an event that is not in the collection          *)
(***************************************************************************)
\* a step of handleSaveEvent in edit mode with an id the collection lacks
UnknownIdSaveStep ==
    /\ lastOp'.op = "handleSaveEvent"
    /\ ~isNewEvent
    /\ lastOp'.eventData.id \notin IdsOf(events)

\* C14: saving an edit of an event whose id is not in the collection
\* fails with an outcome the caller can see (a message, the form staying
\* open) instead of completing like a successful save, and leaves the
\* collection unchanged
C14_UnknownIdUpdateFails ==
    [][UnknownIdSaveStep =>
          /\ lastOp'.message # "" \/ isEventFormOpen'
          /\ events' = events]_vars

\* C15: after a committed drag in Home onto a grid day (a date at local
\* midnight, earlier than, equal to or later than the anchor day) the
\* dragged event's date is on that calendar day and keeps its time of
\* day; dragged onto the day it is anchored on, its date is unchanged
C15_DragLandsOnGridDay ==
    [][CommittedDrag /\ lastOp'.newDate.tod = 0 =>
          \A i \in DOMAIN events :
              events[i].id = lastOp'.eventData.id =>
                  /\ events'[i].date.day = lastOp'.newDate.day
                  /\ events'[i].date.tod = events[i].date.tod
                  /\ events[i].date.day = lastOp'.newDate.day =>
                        events'[i].date = events[i].date]_vars

\* an event stored at 15:00 on 2024-06-05 was dragged back onto the cell
\* of 2024-06-03 and is now dated 2024-06-03 15:00
C15_Witness ==
    /\ DragCommitted
    /\ lastOp.eventData.date = [day |-> Jun3 + 2, tod |-> 900]
    /\ lastOp.newDate = Midnight(Jun3)
    /\ \E i \in DOMAIN events :
          /\ events[i].id = lastOp.eventData.id
          /\ events[i].date = [day |-> Jun3, tod |-> 900]

\* C16: a custom event with interval k >= 1 repeats every k weeks: it is
\* shown only on days whose weekday is the weekday of its anchor date
C16_CustomOnAnchorWeekdayOnly ==
    Rendered =>
        \A i \in DOMAIN events :
            LET e == events[i] IN
            (e.recurrence.type = "custom" /\ e.recurrence.interval >= 1
                /\ IsShown(e)) =>
                    WeekdayOf(viewDay) = WeekdayOf(e.date)

(***************************************************************************)
(* Home: an event and the day of its own date                              *)
(***************************************************************************)
\* the day cell of calendar day n displays the event with this id
DisplayedOn(id, n) ==
    \E j \in DOMAIN getEventsForDay(Midnight(n)) :
        getEventsForDay(Midnight(n))[j].id = id

HasWeeklyDays(e) ==
    e.recurrence.type = "weekly" /\ e.recurrence.days # <<>>

C18_DeletedEventNotDisplayed ==
    lastOp.op = "handleDeleteEvent" =>
        \A n \in DayRange : ~DisplayedOn(selectedEvent.id, n)

(***************************************************************************)
(* MonthlyCalendar on its own: what a drop changes                         *)
(***************************************************************************)
\* a step of the internal onDrop that found the dragged event
DropStep == lastOp'.op = "onDrop" /\ lastOp'.eventData # NullEvent

\* C19: without onDragEvent, dropping event Y on a day changes only Y's
\* date: the collection keeps its length and its set of ids, Y's entry
\* gets the date of the cell and every other event is unchanged
C19_InternalDropChangesOnlyDate ==
    [][DropStep =>
          /\ Len(localEvents') = Len(localEvents)
          /\ IdsOf(localEvents') = IdsOf(localEvents)
          /\ \A i \in DOMAIN localEvents :
                IF localEvents[i].id = lastOp'.eventData.id
                THEN localEvents'[i] =
                         [localEvents[i] EXCEPT !.date = lastOp'.newDate]
                ELSE localEvents'[i] = localEvents[i]]_vars

(***************************************************************************)
(* Home: start before end                                                  *)
(***************************************************************************)
StartsBeforeEnd(e) == timeToMinutes(e.startTime) < timeToMinutes(e.endTime)

\* a step of EventForm.handleSave
FormSaveStep == lastOp'.op \in {"alert", "handleSaveEvent"}

\* C20: every event of the collection has timeToMinutes(startTime) <
\* timeToMinutes(endTime) before and after every step, and Save is refused
\* with the end-after-start message exactly for the pairs whose minute
\* values are equal or inverted
C20_StartBeforeEnd ==
    [][/\ \A i \in DOMAIN events : StartsBeforeEnd(events[i])
       /\ \A i \in DOMAIN events' : StartsBeforeEnd(events'[i])
       /\ FormSaveStep =>
             (lastOp'.message = "End time must be after start time"
                 <=> ~StartsBeforeEnd(lastOp'.eventData))]_vars

\* with a created event in the collection, Save was refused for a form
\* whose start and end times are equal
C20_Witness ==
    /\ lastOp.op = "alert"
    /\ lastOp.eventData.startTime = lastOp.eventData.endTime
    /\ \E i \in DOMAIN events : events[i].id >= ClockStart

(***************************************************************************)
(* Home: the conflict check of a drag and the one of a save                *)
(***************************************************************************)
\* the grid days a drag is compared on: the days the user drops on and
\* the days the events of the collection are anchored on
DragTargets == GridDays \cup {events[j].date.day : j \in DOMAIN events}

\* the event as updateEventDate stores it after a drag onto newDate
Relocated(e, newDate) == [e EXCEPT !.date = shiftedDate(e.date, newDate)]

\* C21: for every event E of the collection and every grid day d,
\* checkForConflicts(E, d) equals checkForEventConflicts, in edit mode, of
\* E with the date updateEventDate stores for d: the flag of a drag is
\* the flag of the date that is stored
C21_DragCheckAgreesWithSaveCheck ==
    ~isNewEvent =>
        \A i \in DOMAIN events : \A n \in DragTargets :
            checkForConflicts(events[i], Midnight(n))
                <=> checkForEventConflicts(Relocated(events[i], Midnight(n)))

\* in edit mode, an event anchored on one day conflicts on another grid
\* day by both checks, and not on its own day although it overlaps itself
C21_Witness ==
    /\ ~isNewEvent
    /\ \E i \in DOMAIN events : \E n \in DragTargets :
          /\ n # events[i].date.day
          /\ events[i].date.tod # 0
          /\ checkForConflicts(events[i], Midnight(n))
          /\ checkForEventConflicts(Relocated(events[i], Midnight(n)))
          /\ ~checkForConflicts(events[i], Midnight(events[i].date.day))

====
